---- MODULE Spec2Model ----
(***************************************************************************)
(* musiclibcleaner.py: the scan / cache / validate / report pipeline.       *)
(* A Python str is a sequence of one-character strings; a dict is a         *)
(* sequence of keys (insertion order) and a function on those keys; a       *)
(* mutable dict value lives in `heap` and is named by its index there, so   *)
(* that two keys of media_info can name one and the same record.            *)
(***************************************************************************)
EXTENDS Naturals, Sequences, FiniteSets, TLC

VARIABLES
    args,             \* argparse result: refresh, skip_album_covers
    pc,               \* position of the module-level script (lines 247-263)
    files_json,       \* <library>/files.json: [exists, text]
    info_json,        \* <library>/info.json: [exists, keys, val]
    media_files,      \* the list scan_library returned
    source,           \* how media_files was produced: "none", "walk", "cache"
    prev,             \* [source, files] of the run before this one
    runs,             \* runs of the script so far, this one included
    media_info,       \* dict path -> record: [keys, ref], ref into heap
    heap,             \* the record objects, in allocation order
    media_info_item,  \* local of scan_media_info: 0 unbound, else a heap index
    i,                \* 1-based position of the running for loop
    file_info,        \* what taglib.File gave for the path last extracted
    art_file,         \* what ArtFile gave for the path last checked
    passes,           \* completed scan_erroneous_tags passes
    report_html,      \* <output>/report.html: [written, rows]
    report_json,      \* <output>/report.json: [exists, keys, val]
    exception         \* uncaught exception that ended the run, or "none"

vars == << args, pc, files_json, info_json, media_files, source, prev, runs,
           media_info, heap, media_info_item, i, file_info, art_file, passes,
           report_html, report_json, exception >>

(***************************************************************************)
(* Bounds                                                                   *)
(***************************************************************************)
MaxFiles == 2     \* paths one walk of the library returns
MaxRuns == 2      \* consecutive runs of the script over one library
MaxStrLen == 3    \* length of a tag value handed to the validator
MaxPasses == 2    \* validation passes over the same records

(***************************************************************************)
(* Strings                                                                  *)
(***************************************************************************)
NL == "\n"
CR == "\r"
Whitespace == {" ", "\t", NL, CR}
Digits == {"0", "1", "2", "3", "4", "5", "6", "7", "8", "9"}

Range(s) == {s[k] : k \in DOMAIN s}

SeqsUpTo(S, n) == UNION {[1..k -> S] : k \in 0..n}

\* sep.join(parts)
RECURSIVE join(_, _)
join(sep, parts) ==
    IF parts = <<>> THEN <<>>
    ELSE IF Len(parts) = 1 THEN parts[1]
    ELSE parts[1] \o sep \o join(sep, Tail(parts))

\* s.rstrip()
RECURSIVE rstrip(_)
rstrip(s) ==
    IF s # <<>> /\ s[Len(s)] \in Whitespace
    THEN rstrip(SubSeq(s, 1, Len(s) - 1))
    ELSE s

\* s.split(c): the pieces between the occurrences of c, empty pieces kept
RECURSIVE split(_, _)
split(s, c) ==
    IF \E k \in 1..Len(s) : s[k] = c
    THEN LET k == CHOOSE j \in 1..Len(s) :
                      s[j] = c /\ \A h \in 1..(j - 1) : s[h] # c
         IN <<SubSeq(s, 1, k - 1)>> \o split(SubSeq(s, k + 1, Len(s)), c)
    ELSE <<s>>

\* open(..., 'r') reads in universal-newlines mode: "\r\n" and "\r" become "\n"
RECURSIVE read_text(_)
read_text(s) ==
    IF s = <<>> THEN <<>>
    ELSE IF s[1] = CR
         THEN IF Len(s) >= 2 /\ s[2] = NL
              THEN <<NL>> \o read_text(SubSeq(s, 3, Len(s)))
              ELSE <<NL>> \o read_text(Tail(s))
         ELSE <<s[1]>> \o read_text(Tail(s))

(***************************************************************************)
(* The library: what Path(library_path).rglob finds                         *)
(***************************************************************************)
Ext == <<".", "m", "p", "3">>
PathA == <<"a">> \o Ext
PathB == <<"b">> \o Ext
\* a POSIX file name may hold a line break
PathN == <<"x", NL, "b">> \o Ext
Paths == {PathA, PathB, PathN}

\* The concatenated matches of the fourteen rglob patterns.  The same file
\* can be matched by two patterns (mp3 and MP3 on a case-insensitive file
\* system), so a path may occur twice.
Walks == SeqsUpTo(Paths, MaxFiles)

NoFile == [exists |-> FALSE, text |-> <<>>]

\* lines 46-73
scan_library_result(cache, refresh, walk) ==
    IF cache.exists /\ ~refresh
    THEN [media_files |-> split(rstrip(read_text(cache.text)), NL),
          cache |-> cache,
          source |-> "cache"]
    ELSE [media_files |-> walk,
          cache |-> IF Len(walk) > 0
                    THEN [exists |-> TRUE, text |-> join(<<NL>>, walk)]
                    ELSE NoFile,
          source |-> "walk"]

(***************************************************************************)
(* Records                                                                  *)
(***************************************************************************)
TagNames == {"ARTIST", "ALBUMARTIST", "ALBUM", "TITLE", "TRACKNUMBER",
             "DISCNUMBER", "DATE"}

\* A tag value of a record: None or a str.
None == [isNone |-> TRUE, s |-> <<>>]
Str(s) == [isNone |-> FALSE, s |-> s]

\* {}
EmptyDict == [n \in {} |-> None]

ErroredRecord ==
    [tags |-> EmptyDict, errored |-> TRUE, erroneous_tags |-> <<>>,
     has_cover |-> FALSE]

\* lines 135-148: file_info.tags maps a tag name to a list of str
media_info_item_of(tags) ==
    [tags |-> [n \in TagNames |->
                 IF n \in DOMAIN tags
                 THEN IF n \in {"ARTIST", "ALBUMARTIST"}
                      THEN Str(join(<<",">>, tags[n]))
                      ELSE Str(tags[n][1])
                 ELSE None],
     errored |-> FALSE, erroneous_tags |-> <<>>, has_cover |-> FALSE]

(***************************************************************************)
(* The tag predicates                                                       *)
(***************************************************************************)
StartsWith(s, p) == Len(s) >= Len(p) /\ SubSeq(s, 1, Len(p)) = p

\* [[1-9][0-9]{0,2} at position k of s: one character out of "[", "1".."9",
\* then at most two digits.  Nothing anchors the end of the match.
ClassThenDigits(s, k) ==
    /\ Len(s) >= k
    /\ s[k] \in ({"["} \cup (Digits \ {"0"}))
    /\ \E n \in 0..2 : /\ Len(s) >= k + n
                       /\ \A j \in (k + 1)..(k + n) : s[j] \in Digits

\* re.match('^[[1-9][0-9]{0,2}|100]|/[[[1-9][0-9]{0,2}|100]]$', s): the
\* pattern is four alternatives, tried at position 0; "$" stands at the end
\* of s or before a final line break.
number_pattern_match(s) ==
    \/ ClassThenDigits(s, 1)
    \/ StartsWith(s, <<"1", "0", "0", "]">>)
    \/ Len(s) >= 1 /\ s[1] = "/" /\ ClassThenDigits(s, 2)
    \/ s \in {<<"1", "0", "0", "]", "]">>, <<"1", "0", "0", "]", "]", NL>>}

\* re.match('^[0-9][0-9][0-9][0-9]$', s)
date_pattern_match(s) ==
    /\ Len(s) >= 4
    /\ \A k \in 1..4 : s[k] \in Digits
    /\ Len(s) = 4 \/ (Len(s) = 5 /\ s[5] = NL)

\* lines 76-83
determine_erroneous_track_num(item) ==
    LET clean == /\ "TRACKNUMBER" \in DOMAIN item.tags
                 /\ ~item.tags["TRACKNUMBER"].isNone
                 /\ number_pattern_match(item.tags["TRACKNUMBER"].s)
    IN ~clean

\* lines 86-93
determine_erroneous_disc_num(item) ==
    LET clean == \/ "DISCNUMBER" \notin DOMAIN item.tags
                 \/ /\ ~item.tags["DISCNUMBER"].isNone
                    /\ \/ number_pattern_match(item.tags["DISCNUMBER"].s)
                       \/ item.tags["DISCNUMBER"].s = <<>>
    IN ~clean

\* lines 96-103
determine_erroneous_date(item) ==
    LET clean == /\ "DATE" \in DOMAIN item.tags
                 /\ ~item.tags["DATE"].isNone
                 /\ date_pattern_match(item.tags["DATE"].s)
    IN ~clean

\* the append without the "not in" test of lines 196, 198, 200
append_always(tags, name) == Append(tags, name)

\* item['erroneous_tags'].append(name) unless the name is already there
append_if_absent(tags, name) ==
    IF name \notin Range(tags) THEN Append(tags, name) ELSE tags

\* lines 196-201: the body of the loop of scan_erroneous_tags
erroneous_tags_of(item) ==
    LET t1 == IF determine_erroneous_track_num(item)
              THEN append_if_absent(item.erroneous_tags, "TRACKNUMBER")
              ELSE item.erroneous_tags
        t2 == IF determine_erroneous_disc_num(item)
              THEN append_if_absent(t1, "DISCNUMBER")
              ELSE t1
    IN IF determine_erroneous_date(item)
       THEN append_if_absent(t2, "DATE")
       ELSE t2

(***************************************************************************)
(* media_info: a dict whose values are references into the heap             *)
(***************************************************************************)
EmptyInfo == [keys |-> <<>>, ref |-> [p \in {} |-> 0]]

\* d[key] = id: a new key goes last, an old key keeps its place
set_item(d, key, id) ==
    [keys |-> IF key \in Range(d.keys) THEN d.keys ELSE Append(d.keys, key),
     ref |-> (key :> id) @@ d.ref]

\* the record a key of media_info names
Rec(d, h, key) == h[d.ref[key]]

NoInfo == [exists |-> FALSE, keys |-> <<>>, val |-> [p \in {} |-> ErroredRecord]]

\* json.dumps(media_info): every key with the value of its record
dumps(d, h) ==
    [exists |-> TRUE, keys |-> d.keys,
     val |-> [p \in Range(d.keys) |-> Rec(d, h, p)]]

\* json.loads(text): every key gets a record object of its own
loads(file) ==
    [media_info |->
        [keys |-> file.keys,
         ref |-> [p \in Range(file.keys) |->
                    CHOOSE k \in 1..Len(file.keys) : file.keys[k] = p]],
     heap |-> [k \in 1..Len(file.keys) |-> file.val[file.keys[k]]]]

(***************************************************************************)
(* The two capabilities                                                     *)
(***************************************************************************)
\* what taglib.File(path).tags can hold
TagsClean ==
    [n \in {"ARTIST", "ALBUM", "TRACKNUMBER", "DISCNUMBER", "DATE"} |->
        CASE n = "ARTIST" -> << <<"p">>, <<"q">> >>
          [] n = "ALBUM" -> << <<"l">> >>
          [] n = "TRACKNUMBER" -> << <<"5", "/", "1", "2">> >>
          [] n = "DISCNUMBER" -> << <<"2">> >>
          [] n = "DATE" -> << <<"2", "0", "2", "0">> >>]
TagsNoDisc ==
    [n \in {"TITLE", "TRACKNUMBER", "DATE"} |->
        CASE n = "TITLE" -> << <<"t">> >>
          [] n = "TRACKNUMBER" -> << <<"5">> >>
          [] n = "DATE" -> << <<"2", "0", "2", "0">> >>]
TagsBad ==
    [n \in {"TRACKNUMBER", "DISCNUMBER", "DATE"} |->
        CASE n = "TRACKNUMBER" -> << <<"0">> >>
          [] n = "DISCNUMBER" -> << <<"2">> >>
          [] n = "DATE" -> << <<"2", "0", "x", "0">> >>]
TagFiles == {TagsClean, TagsNoDisc, TagsBad}

NoTags == [n \in {} |-> <<>>]

\* taglib.File(media_file): raises, is falsy, or carries tags
FileInfos ==
    {[kind |-> "raise", tags |-> NoTags], [kind |-> "nodata", tags |-> NoTags]}
    \cup {[kind |-> "data", tags |-> t] : t \in TagFiles}
NotRead == [kind |-> "none", tags |-> NoTags]

\* ArtFile(media_file): raises, or has image_data and mime_type, each of
\* which may be empty or None
ArtFiles ==
    {[kind |-> "raise", image_data |-> FALSE, mime_type |-> FALSE]}
    \cup {[kind |-> "ok", image_data |-> b, mime_type |-> m] :
             b \in BOOLEAN, m \in BOOLEAN}
NotChecked == [kind |-> "none", image_data |-> FALSE, mime_type |-> FALSE]

(***************************************************************************)
(* scan_media_info                                                          *)
(***************************************************************************)
\* lines 121-161: one turn of the loop, for `path` with the capability
\* answering `fi`.  st = [media_info, heap, media_info_item].  With a falsy
\* file_info line 128 stores an errored record and line 152 then stores
\* media_info_item over it: the record of the last successful turn, or, if
\* the name is still unbound, an UnboundLocalError that the bare except
\* turns into an errored record.  A record that a later assignment of the
\* same turn replaces is not kept in the heap.
extract_one(st, path, fi) ==
    LET new == Len(st.heap) + 1
        errored == [media_info |-> set_item(st.media_info, path, new),
                    heap |-> Append(st.heap, ErroredRecord),
                    media_info_item |-> st.media_info_item]
    IN CASE fi.kind = "raise" -> errored
         [] fi.kind = "nodata" ->
              IF st.media_info_item = 0
              THEN errored
              ELSE [media_info |-> set_item(st.media_info, path,
                                            st.media_info_item),
                    heap |-> st.heap,
                    media_info_item |-> st.media_info_item]
         [] fi.kind = "data" ->
              [media_info |-> set_item(st.media_info, path, new),
               heap |-> Append(st.heap, media_info_item_of(fi.tags)),
               media_info_item |-> new]

RECURSIVE extract_all(_, _, _)
extract_all(st, paths, fis) ==
    IF paths = <<>> THEN st
    ELSE extract_all(extract_one(st, paths[1], fis[1]), Tail(paths), Tail(fis))

(***************************************************************************)
(* The caches an earlier run of the script left in the library              *)
(***************************************************************************)
\* what the earlier run's taglib.File gave for each path of its walk
EarlierFileInfo(path) ==
    CASE path = PathA -> [kind |-> "data", tags |-> TagsClean]
      [] path = PathB -> [kind |-> "raise", tags |-> NoTags]
      [] path = PathN -> [kind |-> "data", tags |-> TagsNoDisc]

EarlierWalks == {w \in Walks : Len(w) > 0}

\* files.json as the earlier walk wrote it, for the walks whose cache reads
\* back as a list of at most MaxFiles entries
EarlierFilesJson ==
    {scan_library_result(NoFile, TRUE, w).cache :
        w \in {v \in EarlierWalks :
                 Len(split(join(<<NL>>, v), NL)) <= MaxFiles}}

EarlierInfoJson ==
    {LET st == extract_all([media_info |-> EmptyInfo, heap |-> <<>>,
                            media_info_item |-> 0],
                           w, [k \in 1..Len(w) |-> EarlierFileInfo(w[k])])
     IN dumps(st.media_info, st.heap) : w \in EarlierWalks}

(***************************************************************************)
(* The run                                                                  *)
(***************************************************************************)
Args == [refresh : BOOLEAN, skip_album_covers : BOOLEAN]

NoReport == [written |-> FALSE, rows |-> <<>>]

\* create_paths has returned: the library exists, the output directory too
Fresh ==
    /\ pc = "scan_library"
    /\ media_files = <<>>
    /\ source = "none"
    /\ prev = [source |-> "none", files |-> <<>>]
    /\ runs = 1
    /\ media_info = EmptyInfo
    /\ heap = <<>>
    /\ media_info_item = 0
    /\ i = 0
    /\ file_info = NotRead
    /\ art_file = NotChecked
    /\ passes = 0
    /\ report_html = NoReport
    /\ report_json = NoInfo
    /\ exception = "none"

Init ==
    /\ args \in Args
    /\ files_json \in {NoFile} \cup EarlierFilesJson
    /\ info_json \in {NoInfo} \cup EarlierInfoJson
    /\ Fresh

\* line 251
scan_library ==
    /\ pc = "scan_library"
    /\ \E walk \in Walks :
         LET r == scan_library_result(files_json, args.refresh, walk)
         IN /\ media_files' = r.media_files
            /\ files_json' = r.cache
            /\ source' = r.source
    /\ pc' = "scan_media_info"
    /\ UNCHANGED << args, info_json, prev, runs, media_info, heap,
                    media_info_item, i, file_info, art_file, passes,
                    report_html, report_json, exception >>

\* lines 106-120: the cache is loaded, or removed before the loop starts
scan_media_info ==
    /\ pc = "scan_media_info"
    /\ IF info_json.exists /\ ~args.refresh
       THEN /\ media_info' = loads(info_json).media_info
            /\ heap' = loads(info_json).heap
            /\ pc' = "scan_erroneous_tags"
            /\ UNCHANGED info_json
       ELSE /\ media_info' = EmptyInfo
            /\ heap' = <<>>
            /\ pc' = "extract"
            /\ info_json' = NoInfo
    /\ i' = 1
    /\ UNCHANGED << args, files_json, media_files, source, prev, runs,
                    media_info_item, file_info, art_file, passes,
                    report_html, report_json, exception >>

\* lines 121-161: one turn of the loop
extract ==
    /\ pc = "extract"
    /\ i <= Len(media_files)
    /\ \E fi \in FileInfos :
         LET st == extract_one([media_info |-> media_info, heap |-> heap,
                                media_info_item |-> media_info_item],
                               media_files[i], fi)
         IN /\ media_info' = st.media_info
            /\ heap' = st.heap
            /\ media_info_item' = st.media_info_item
            /\ file_info' = fi
    /\ i' = i + 1
    /\ UNCHANGED << args, pc, files_json, info_json, media_files, source,
                    prev, runs, art_file, passes, report_html, report_json,
                    exception >>

\* lines 163-170: after the loop
scan_media_info_return ==
    /\ pc = "extract"
    /\ i > Len(media_files)
    /\ info_json' = IF Len(media_info.keys) > 0
                    THEN dumps(media_info, heap)
                    ELSE info_json
    /\ pc' = "scan_erroneous_tags"
    /\ i' = 1
    /\ UNCHANGED << args, files_json, media_files, source, prev, runs,
                    media_info, heap, media_info_item, file_info, art_file,
                    passes, report_html, report_json, exception >>

(***************************************************************************)
(* scan_erroneous_tags                                                      *)
(***************************************************************************)
\* lines 194-201: one turn of the loop; media_info[media_file] raises
\* KeyError for a path that is no key, and nothing catches it
scan_erroneous_tags ==
    /\ pc = "scan_erroneous_tags"
    /\ i <= Len(media_files)
    /\ IF media_files[i] \notin Range(media_info.keys)
       THEN /\ pc' = "crashed"
            /\ exception' = "KeyError"
            /\ UNCHANGED << heap, i >>
       ELSE /\ heap' = [heap EXCEPT
                          ![media_info.ref[media_files[i]]].erroneous_tags =
                              erroneous_tags_of(Rec(media_info, heap,
                                                    media_files[i]))]
            /\ i' = i + 1
            /\ UNCHANGED << pc, exception >>
    /\ UNCHANGED << args, files_json, info_json, media_files, source, prev,
                    runs, media_info, media_info_item, file_info, art_file,
                    passes, report_html, report_json >>

\* lines 203, 253: the pass returns; the cover pass follows unless skipped
scan_erroneous_tags_return ==
    /\ pc = "scan_erroneous_tags"
    /\ i > Len(media_files)
    /\ passes' = passes + 1
    /\ pc' = IF args.skip_album_covers THEN "report" ELSE "scan_album_covers"
    /\ i' = 1
    /\ UNCHANGED << args, files_json, info_json, media_files, source, prev,
                    runs, media_info, heap, media_info_item, file_info,
                    art_file, report_html, report_json, exception >>

(***************************************************************************)
(* scan_album_covers                                                        *)
(***************************************************************************)
\* lines 177-187
has_cover_of(art) ==
    IF art.kind = "raise" THEN FALSE
    ELSE IF ~art.image_data /\ ~art.mime_type THEN FALSE ELSE TRUE

\* lines 175-187: one turn of the loop
scan_album_covers ==
    /\ pc = "scan_album_covers"
    /\ i <= Len(media_files)
    /\ IF media_files[i] \notin Range(media_info.keys)
       THEN /\ pc' = "crashed"
            /\ exception' = "KeyError"
            /\ UNCHANGED << heap, i, art_file >>
       ELSE /\ \E art \in ArtFiles :
                 /\ art_file' = art
                 /\ heap' = [heap EXCEPT
                               ![media_info.ref[media_files[i]]].has_cover =
                                   has_cover_of(art)]
            /\ i' = i + 1
            /\ UNCHANGED << pc, exception >>
    /\ UNCHANGED << args, files_json, info_json, media_files, source, prev,
                    runs, media_info, media_info_item, file_info, passes,
                    report_html, report_json >>

\* line 189
scan_album_covers_return ==
    /\ pc = "scan_album_covers"
    /\ i > Len(media_files)
    /\ pc' = "report"
    /\ i' = 1
    /\ UNCHANGED << args, files_json, info_json, media_files, source, prev,
                    runs, media_info, heap, media_info_item, file_info,
                    art_file, passes, report_html, report_json, exception >>

(***************************************************************************)
(* The reports                                                              *)
(***************************************************************************)
\* the condition without its test of --skip-album-covers
in_report_ignoring_skip(item, skip_album_covers) ==
    \/ Len(item.erroneous_tags) > 0
    \/ ~item.has_cover
    \/ item.errored

\* line 258: the condition of the list comprehension
in_report(item, skip_album_covers) ==
    \/ Len(item.erroneous_tags) > 0
    \/ (~item.has_cover /\ ~skip_album_covers)
    \/ item.errored

\* line 258: [media_info[key] for key in media_info if ...]
RECURSIVE dict_list_of(_, _, _, _)
dict_list_of(keys, d, h, skip_album_covers) ==
    IF keys = <<>> THEN <<>>
    ELSE (IF in_report(Rec(d, h, keys[1]), skip_album_covers)
          THEN <<Rec(d, h, keys[1])>>
          ELSE <<>>)
         \o dict_list_of(Tail(keys), d, h, skip_album_covers)

\* lines 256-263; dict_list_to_html reads dict_list[0] (line 222), which
\* raises IndexError on an empty list before either report is written
report ==
    /\ pc = "report"
    /\ LET dict_list == dict_list_of(media_info.keys, media_info, heap,
                                     args.skip_album_covers)
       IN IF Len(media_info.keys) = 0
          THEN /\ pc' = "done"
               /\ UNCHANGED << report_html, report_json, exception >>
          ELSE IF dict_list = <<>>
          THEN /\ pc' = "crashed"
               /\ exception' = "IndexError"
               /\ UNCHANGED << report_html, report_json >>
          ELSE /\ report_html' = [written |-> TRUE, rows |-> dict_list]
               /\ report_json' = dumps(media_info, heap)
               /\ pc' = "done"
               /\ UNCHANGED exception
    /\ UNCHANGED << args, files_json, info_json, media_files, source, prev,
                    runs, media_info, heap, media_info_item, i, file_info,
                    art_file, passes >>

Next ==
    \/ scan_library
    \/ scan_media_info
    \/ extract
    \/ scan_media_info_return
    \/ scan_erroneous_tags
    \/ scan_erroneous_tags_return
    \/ scan_album_covers
    \/ scan_album_covers_return
    \/ report

Spec == Init /\ [][Next]_vars

(***************************************************************************)
(* Consecutive runs over one library: scan_library alone reads and writes   *)
(* files.json, so the rest of a run is left out between two scans.          *)
(***************************************************************************)
\* the script is started again, with arguments of its own
run_again ==
    /\ pc = "scan_media_info"
    /\ runs < MaxRuns
    /\ runs' = runs + 1
    /\ args' \in Args
    /\ prev' = [source |-> source, files |-> media_files]
    /\ media_files' = <<>>
    /\ source' = "none"
    /\ pc' = "scan_library"
    /\ UNCHANGED << files_json, info_json, media_info, heap, media_info_item,
                    i, file_info, art_file, passes, report_html, report_json,
                    exception >>

InitScan ==
    /\ args \in Args
    /\ files_json \in {NoFile} \cup EarlierFilesJson
    /\ info_json = NoInfo
    /\ Fresh

NextScan ==
    \/ scan_library
    \/ run_again

SpecScan == InitScan /\ [][NextScan]_vars

(***************************************************************************)
(* The validator over one record whose three validated tags hold a value    *)
(* drawn from the bounded strings                                           *)
(***************************************************************************)
Alphabet == {"0", "1", "2", "5", "/", "a"}
TagValues == {None} \cup {Str(s) : s \in SeqsUpTo(Alphabet, MaxStrLen)}

\* a record as scan_media_info builds it (lines 135-148) or as it stores it
\* for a failed extraction (lines 155-161)
RecordsToValidate ==
    {ErroredRecord}
    \cup {[tags |-> [n \in TagNames |->
                       IF n \in {"TRACKNUMBER", "DISCNUMBER", "DATE"}
                       THEN v ELSE None],
           errored |-> FALSE, erroneous_tags |-> <<>>, has_cover |-> FALSE] :
             v \in TagValues}

InitPattern ==
    /\ args \in Args
    /\ files_json = NoFile
    /\ info_json = NoInfo
    /\ pc = "scan_erroneous_tags"
    /\ media_files = <<PathA>>
    /\ source = "walk"
    /\ prev = [source |-> "none", files |-> <<>>]
    /\ runs = 1
    /\ media_info = set_item(EmptyInfo, PathA, 1)
    /\ \E r \in RecordsToValidate : heap = <<r>>
    /\ media_info_item = 0
    /\ i = 1
    /\ file_info = NotRead
    /\ art_file = NotChecked
    /\ passes = 0
    /\ report_html = NoReport
    /\ report_json = NoInfo
    /\ exception = "none"

NextPattern ==
    \/ scan_erroneous_tags
    \/ scan_erroneous_tags_return

SpecPattern == InitPattern /\ [][NextPattern]_vars

(***************************************************************************)
(* scan_erroneous_tags called again over the records it has just validated  *)
(***************************************************************************)
revalidate ==
    /\ passes >= 1
    /\ passes < MaxPasses
    /\ i = 1
    /\ \/ pc = "scan_album_covers"
       \/ pc = "report" /\ args.skip_album_covers
    /\ pc' = "scan_erroneous_tags"
    /\ UNCHANGED << args, files_json, info_json, media_files, source, prev,
                    runs, media_info, heap, media_info_item, i, file_info,
                    art_file, passes, report_html, report_json, exception >>

NextRevalidate ==
    \/ Next
    \/ revalidate

SpecRevalidate == Init /\ [][NextRevalidate]_vars

(***************************************************************************)
(* Properties                                                               *)
(***************************************************************************)
Keys == Range(media_info.keys)
Record(key) == Rec(media_info, heap, key)
Record2(key) == Rec(media_info', heap', key)
ValidatedNames == {"TRACKNUMBER", "DISCNUMBER", "DATE"}

\* C1: once the validation pass has run, every record with errored = TRUE
\* has an empty erroneous_tags.
C1_ErroredHasNoErroneousTags ==
    passes >= 1 =>
        \A p \in Keys : Record(p).errored => Record(p).erroneous_tags = <<>>

\* C2: a run with a non-empty metadata map that ends normally has written
\* report.html, and a written report.html holds exactly one row for every
\* key of the map whose record has a non-empty erroneous_tags, or errored, or
\* (no cover and the cover pass not skipped), in the order of the keys.
C2_Selected(item) ==
    \/ item.erroneous_tags # <<>>
    \/ item.errored
    \/ (item.has_cover = FALSE /\ args.skip_album_covers = FALSE)

C2_ReportRows ==
    LET sel == SelectSeq(media_info.keys, LAMBDA k : C2_Selected(Record(k)))
    IN /\ (pc = "done" /\ media_info.keys # <<>>) => report_html.written
       /\ report_html.written =>
            /\ Len(report_html.rows) = Len(sel)
            /\ \A j \in 1..Len(sel) : report_html.rows[j] = Record(sel[j])

\* C2 witness: a report with a row for one record and none for another
C2_Witness ==
    /\ report_html.written
    /\ Len(report_html.rows) >= 1
    /\ Len(report_html.rows) < Len(media_info.keys)

\* C3: a run with a non-empty metadata map that reaches the report stage
\* writes report.json with an entry for every record; a record that is not
\* flagged is absent from report.html and present in report.json, also when
\* no record of the run is flagged.
C3_JsonHoldsEveryRecord ==
    (pc \in {"done", "crashed"} /\ exception # "KeyError"
        /\ media_info.keys # <<>>) =>
        /\ report_json.exists
        /\ report_json.keys = media_info.keys
        /\ \A p \in Keys : report_json.val[p] = Record(p)
        /\ Len(report_html.rows) =
             Cardinality({k \in 1..Len(media_info.keys) :
                            C2_Selected(Record(media_info.keys[k]))})

\* C4: in an extraction without the cache, a turn of the loop for a path
\* met for the first time whose capability raises or reports no data stores an errored record with empty
\* tags under its path, a turn with data stores what that data gives, and no
\* turn changes the record of another path or shares its record with one.
C4_FailureIsolation ==
    [][(pc = "extract" /\ i' = i + 1 /\ media_files[i] \notin Keys) =>
         LET p == media_files[i]
         IN /\ file_info'.kind \in {"raise", "nodata"} =>
                 /\ Record2(p).errored
                 /\ Record2(p).tags = EmptyDict
            /\ file_info'.kind = "data" =>
                 Record2(p) = media_info_item_of(file_info'.tags)
            /\ \A q \in Keys \ {p} :
                 /\ Record2(q) = Record(q)
                 /\ media_info'.ref[q] # media_info'.ref[p]]_vars

\* C5: after a turn of the cover-art pass the record's has_cover is TRUE
\* only if the capability returned, without raising, non-empty image bytes
\* and a MIME type.
C5_CoverNeedsBytesAndMime ==
    (pc = "scan_album_covers" /\ i > 1) =>
        (Record(media_files[i - 1]).has_cover =>
            /\ art_file.kind = "ok"
            /\ art_file.image_data
            /\ art_file.mime_type)

\* C6: once the validation pass has run, a successfully extracted record
\* whose DISCNUMBER was normalised to None has no DISCNUMBER in its
\* erroneous_tags.
C6_AbsentDiscNumberIsClean ==
    passes >= 1 =>
        \A p \in Keys :
            (/\ ~Record(p).errored
             /\ "DISCNUMBER" \in DOMAIN Record(p).tags
             /\ Record(p).tags["DISCNUMBER"].isNone)
            => "DISCNUMBER" \notin Range(Record(p).erroneous_tags)

\* one integer in 1..100, written without sign or leading zero
IsCount(t) ==
    /\ Len(t) \in 1..3
    /\ \A k \in 1..Len(t) : t[k] \in Digits
    /\ t[1] # "0"
    /\ Len(t) = 3 => t = <<"1", "0", "0">>

\* the whole string is a count, or a count, "/" and a count
IsTrackNumber(s) ==
    \/ IsCount(s)
    \/ \E k \in 1..Len(s) :
         /\ s[k] = "/"
         /\ IsCount(SubSeq(s, 1, k - 1))
         /\ IsCount(SubSeq(s, k + 1, Len(s)))

\* C7: after the validation pass over a record whose TRACKNUMBER and
\* DISCNUMBER hold the string s, TRACKNUMBER is erroneous iff s is not one
\* integer in 1..100 optionally followed by "/" and a second one, DISCNUMBER
\* is erroneous iff s is neither empty nor such a string, and an absent
\* TRACKNUMBER is erroneous.
C7_NumberPattern ==
    passes >= 1 =>
        LET item == heap[1]
            flagged(n) == n \in Range(item.erroneous_tags)
        IN IF "TRACKNUMBER" \notin DOMAIN item.tags
              \/ item.tags["TRACKNUMBER"].isNone
           THEN flagged("TRACKNUMBER")
           ELSE /\ flagged("TRACKNUMBER") <=>
                     ~IsTrackNumber(item.tags["TRACKNUMBER"].s)
                /\ flagged("DISCNUMBER") <=>
                     ~(\/ item.tags["DISCNUMBER"].s = <<>>
                       \/ IsTrackNumber(item.tags["DISCNUMBER"].s))

\* C8: every erroneous_tags holds each of TRACKNUMBER, DISCNUMBER, DATE at
\* most once and nothing else, and once one validation pass has completed no
\* later step, a further pass included, changes any erroneous_tags.
C8_ValidationIdempotent ==
    /\ [](\A k \in 1..Len(heap) :
            /\ Range(heap[k].erroneous_tags) \subseteq ValidatedNames
            /\ Cardinality(Range(heap[k].erroneous_tags))
                 = Len(heap[k].erroneous_tags))
    /\ [][passes >= 1 =>
            /\ Len(heap') = Len(heap)
            /\ \A k \in 1..Len(heap) :
                 heap'[k].erroneous_tags = heap[k].erroneous_tags]_vars

\* C8 witness: a second pass has completed over a record with erroneous tags
C8_Witness ==
    /\ passes = 2
    /\ \E k \in 1..Len(heap) : heap[k].erroneous_tags # <<>>

\* C9: a scan that loads the cache written by the walk of the run before,
\* whose result was not empty, returns that walk's sequence of paths; and a
\* walk that finds no file leaves no cache.
C9_FileListRoundTrip ==
    /\ (source = "cache" /\ prev.source = "walk" /\ prev.files # <<>>) =>
           media_files = prev.files
    /\ (source = "walk" /\ media_files = <<>>) => ~files_json.exists

\* C10: a run that loaded a metadata cache whose key set differs from the
\* file list is not ended by the validation or the cover-art pass.
C10_StaleCacheTolerated ==
    (/\ pc \notin {"scan_library", "scan_media_info"}
     /\ file_info = NotRead
     /\ Keys # Range(media_files)) =>
        ~(pc = "crashed" /\ exception = "KeyError")
====
